---------------------------- MODULE Spec2Model ----------------------------
(***************************************************************************)
(* A model of the CRYSTALS-Kyber KEM of crystals-kyber-ts: the polynomial  *)
(* engine (lib/poly), the byte helpers (lib/utilities) and the KEM wiring  *)
(* (services/kyber.service).                                               *)
(*                                                                         *)
(* JavaScript arrays are modelled as sequences; At(a, i) is the source's   *)
(* zero-based a[i].  JavaScript numbers are modelled as integers; the one  *)
(* non-integer of the source, paramsQ / 2 = 1664.5, is carried as a        *)
(* numerator over 2 (see TruncHalves).                                     *)
(***************************************************************************)
EXTENDS Integers, Sequences, FiniteSets, TLC

VARIABLES
    \* ---- one key exchange through a KyberService instance
    paramsK,      \* the instance's paramsK; 0 while no instance is constructed
    kemPhase,     \* "new", "constructed", "keys", "enc", "dec"
    kemKeys,      \* what generateKyberKeys returned, with the values it drew
    kemEnc,       \* the last encrypt call: its input, its steps, its result
    kemDec,       \* the last decrypt call: its inputs, its steps, its result
    \* ---- harness of the pure functions (lib/poly, lib/utilities)
    pureKind,     \* what pureIn is: "poly", "msg", "cmp"; "idle" when unused
    pureOp,       \* the operation applied to it: "none" until one is
    pureIn,       \* the input drawn
    pureMid,      \* the intermediate value (the encoded or transformed form)
    pureOut       \* the result

kemVars == <<paramsK, kemPhase, kemKeys, kemEnc, kemDec>>

pureVars == <<pureKind, pureOp, pureIn, pureMid, pureOut>>

vars == <<paramsK, kemPhase, kemKeys, kemEnc, kemDec,
          pureKind, pureOp, pureIn, pureMid, pureOut>>

-----------------------------------------------------------------------------
(* Program constants (kyber.service.ts)                                    *)

paramsN == 256
paramsQ == 3329
paramsQinv == 62209
paramsSymBytes == 32
paramsPolyBytes == 384
paramsETAK512 == 3
paramsETAK768K1024 == 2
paramsPolyvecBytesK512 == 2 * paramsPolyBytes
paramsPolyvecBytesK768 == 3 * paramsPolyBytes
paramsPolyvecBytesK1024 == 4 * paramsPolyBytes
paramsPolyCompressedBytesK512 == 128
paramsPolyCompressedBytesK768 == 128
paramsPolyCompressedBytesK1024 == 160
paramsPolyvecCompressedBytesK512 == 2 * 320
paramsPolyvecCompressedBytesK768 == 3 * 320
paramsPolyvecCompressedBytesK1024 == 4 * 352
paramsIndcpaPublicKeyBytesK512 == paramsPolyvecBytesK512 + paramsSymBytes
paramsIndcpaPublicKeyBytesK768 == paramsPolyvecBytesK768 + paramsSymBytes
paramsIndcpaPublicKeyBytesK1024 == paramsPolyvecBytesK1024 + paramsSymBytes
paramsIndcpaSecretKeyBytesK512 == 2 * paramsPolyBytes
paramsIndcpaSecretKeyBytesK768 == 3 * paramsPolyBytes
paramsIndcpaSecretKeyBytesK1024 == 4 * paramsPolyBytes

Kyber512SKBytes ==
    paramsPolyvecBytesK512
        + ((paramsPolyvecBytesK512 + paramsSymBytes) + 2 * paramsSymBytes)
Kyber768SKBytes ==
    paramsPolyvecBytesK768
        + ((paramsPolyvecBytesK768 + paramsSymBytes) + 2 * paramsSymBytes)
Kyber1024SKBytes ==
    paramsPolyvecBytesK1024
        + ((paramsPolyvecBytesK1024 + paramsSymBytes) + 2 * paramsSymBytes)

Kyber512PKBytes == paramsPolyvecBytesK512 + paramsSymBytes
Kyber768PKBytes == paramsPolyvecBytesK768 + paramsSymBytes
Kyber1024PKBytes == paramsPolyvecBytesK1024 + paramsSymBytes

Kyber512CTBytes == paramsPolyvecCompressedBytesK512 + paramsPolyCompressedBytesK512
Kyber768CTBytes == paramsPolyvecCompressedBytesK768 + paramsPolyCompressedBytesK768
Kyber1024CTBytes == paramsPolyvecCompressedBytesK1024 + paramsPolyCompressedBytesK1024

KyberSSBytes == 32

\* the sizes of the parameter set of K
KyberPKBytes(K) ==
    IF K = 2 THEN Kyber512PKBytes ELSE IF K = 3 THEN Kyber768PKBytes ELSE Kyber1024PKBytes
KyberSKBytes(K) ==
    IF K = 2 THEN Kyber512SKBytes ELSE IF K = 3 THEN Kyber768SKBytes ELSE Kyber1024SKBytes
KyberCTBytes(K) ==
    IF K = 2 THEN Kyber512CTBytes ELSE IF K = 3 THEN Kyber768CTBytes ELSE Kyber1024CTBytes

nttZetas ==
    <<  2285, 2571, 2970, 1812, 1493, 1422, 287, 202, 3158, 622, 1577, 182, 962,
        2127, 1855, 1468, 573, 2004, 264, 383, 2500, 1458, 1727, 3199, 2648, 1017,
        732, 608, 1787, 411, 3124, 1758, 1223, 652, 2777, 1015, 2036, 1491, 3047,
        1785, 516, 3321, 3009, 2663, 1711, 2167, 126, 1469, 2476, 3239, 3058, 830,
        107, 1908, 3082, 2378, 2931, 961, 1821, 2604, 448, 2264, 677, 2054, 2226,
        430, 555, 843, 2078, 871, 1550, 105, 422, 587, 177, 3094, 3038, 2869, 1574,
        1653, 3083, 778, 1159, 3182, 2552, 1483, 2727, 1119, 1739, 644, 2457, 349,
        418, 329, 3173, 3254, 817, 1097, 603, 610, 1322, 2044, 1864, 384, 2114, 3193,
        1218, 1994, 2455, 220, 2142, 1670, 2144, 1799, 2051, 794, 1819, 2475, 2459,
        478, 3221, 3021, 996, 991, 958, 1869, 1522, 1628 >>

nttZetasInv ==
    <<  1701, 1807, 1460, 2371, 2338, 2333, 308, 108, 2851, 870, 854, 1510, 2535,
        1278, 1530, 1185, 1659, 1187, 3109, 874, 1335, 2111, 136, 1215, 2945, 1465,
        1285, 2007, 2719, 2726, 2232, 2512, 75, 156, 3000, 2911, 2980, 872, 2685,
        1590, 2210, 602, 1846, 777, 147, 2170, 2551, 246, 1676, 1755, 460, 291, 235,
        3152, 2742, 2907, 3224, 1779, 2458, 1251, 2486, 2774, 2899, 1103, 1275, 2652,
        1065, 2881, 725, 1508, 2368, 398, 951, 247, 1421, 3222, 2499, 271, 90, 853,
        1860, 3203, 1162, 1618, 666, 320, 8, 2813, 1544, 282, 1838, 1293, 2314, 552,
        2677, 2106, 1571, 205, 2918, 1542, 2721, 2597, 2312, 681, 130, 1602, 1871,
        829, 2946, 3065, 1325, 2756, 1861, 1474, 1202, 2367, 3147, 1752, 2707, 171,
        3127, 3042, 1907, 1836, 1517, 359, 758, 1441 >>

-----------------------------------------------------------------------------
(* JavaScript number helpers                                               *)
(*                                                                         *)
(* TLC's integers are the 32-bit two's-complement integers, the very range *)
(* of the operands of JavaScript's >>, <<, &, | and ^ (ToInt32), so the    *)
(* bitwise operators are defined on that range in two's complement.        *)

Pow2(n) == 2 ^ n

MinInt32 == (-1073741824) * 2

\* a[i] with the source's zero-based index
At(a, i) == a[i + 1]

\* bitwise AND / OR / XOR of two naturals
RECURSIVE NatAnd(_, _)
NatAnd(a, b) ==
    IF a = 0 \/ b = 0 THEN 0
    ELSE (a % 2) * (b % 2) + 2 * NatAnd(a \div 2, b \div 2)

RECURSIVE NatOr(_, _)
NatOr(a, b) ==
    IF a = 0 THEN b
    ELSE IF b = 0 THEN a
    ELSE (IF (a % 2) + (b % 2) > 0 THEN 1 ELSE 0) + 2 * NatOr(a \div 2, b \div 2)

RECURSIVE NatXor(_, _)
NatXor(a, b) ==
    IF a = 0 THEN b
    ELSE IF b = 0 THEN a
    ELSE ((a + b) % 2) + 2 * NatXor(a \div 2, b \div 2)

\* ~x
BitNot(x) == (-x) - 1

\* x & y, x | y, x ^ y on 32-bit two's-complement integers
BitAnd(x, y) ==
    CASE x >= 0 /\ y >= 0 -> NatAnd(x, y)
      [] x >= 0 /\ y < 0  -> x - NatAnd(x, BitNot(y))
      [] x < 0 /\ y >= 0  -> y - NatAnd(y, BitNot(x))
      [] OTHER            -> BitNot(NatOr(BitNot(x), BitNot(y)))

BitOr(x, y) ==
    CASE x >= 0 /\ y >= 0 -> NatOr(x, y)
      [] x >= 0 /\ y < 0  -> BitNot(BitNot(y) - NatAnd(BitNot(y), x))
      [] x < 0 /\ y >= 0  -> BitNot(BitNot(x) - NatAnd(BitNot(x), y))
      [] OTHER            -> BitNot(NatAnd(BitNot(x), BitNot(y)))

BitXor(x, y) ==
    CASE x >= 0 /\ y >= 0 -> NatXor(x, y)
      [] x >= 0 /\ y < 0  -> BitNot(NatXor(x, BitNot(y)))
      [] x < 0 /\ y >= 0  -> BitNot(NatXor(BitNot(x), y))
      [] OTHER            -> NatXor(BitNot(x), BitNot(y))

\* x >> n (arithmetic), 0 <= n <= 31
Shr(x, n) == IF n >= 31 THEN (IF x < 0 THEN -1 ELSE 0) ELSE x \div Pow2(n)

\* x << n, 0 <= n <= 30, wrapping to 32 bits: the bits below position 31 - n
\* move up, bit 31 - n becomes the sign
Shl(x, n) ==
    IF n = 0 THEN x
    ELSE LET m == Pow2(31 - n)
         IN  (x % m) * Pow2(n) + (IF (x \div m) % 2 = 1 THEN MinInt32 ELSE 0)

\* The integer part (truncation toward zero, as the bitwise operators take
\* it) of the quotient (h / 2) / d, d > 0: h counts halves.
\* bit k (from 0, least significant first within each byte) of a byte array
BitOf(p, k) == (p[(k \div 8) + 1] \div Pow2(k % 8)) % 2

\* the n-bit value that starts at bit from of a byte array, low bit first
RECURSIVE BitsAt(_, _, _)
BitsAt(p, from, n) ==
    IF n = 0 THEN 0 ELSE BitOf(p, from) + 2 * BitsAt(p, from + 1, n - 1)

TruncHalves(h, d) ==
    IF h >= 0 THEN h \div (2 * d) ELSE -((-h) \div (2 * d))

-----------------------------------------------------------------------------
(* lib/utilities                                                           *)

\* n %= 256; while (n < 0) n += 256
byte(n) == n % 256

\* while (n > 255) n -= 256
intToByte(n) == IF n > 255 THEN n % 256 ELSE n

\* n %= 65536; while (n < 0) n += 65536
uint16(n) == n % 65536

int16(n) ==
    IF n < -32768 THEN 32767 + uint16(n + 32769)
    ELSE IF n > 32767 THEN -32768 + uint16(n - 32768)
    ELSE n

\* int32 returns n unchanged when -2^31 <= n <= 2^31 - 1, and every integer
\* of this model lies in that range; a non-integer argument (paramsQ / 2)
\* is returned unchanged too.
int32(n) == n

\* A number of up to 53 bits (exact as a JavaScript number) is held as four
\* limbs <<l0, l1, l2, l3>> in base 65536, low limb first.
\* uint32: n %= 2^32, then 2^32 is added while n < 2^32: for 0 <= n < 2^32
\* the result is n + 2^32, for -2^32 < n < 0 it is n + 2^33; both have the
\* low 32 bits of n and limb l2 = 1.
uint32(n) == <<n % 65536, (n \div 65536) % 65536, 1, 0>>

\* w * m for 0 <= m < 2^15
WideMul(w, m) ==
    LET p0 == w[1] * m
        p1 == w[2] * m + (p0 \div 65536)
        p2 == w[3] * m + (p1 \div 65536)
        p3 == w[4] * m + (p2 \div 65536)
    IN  <<p0 % 65536, p1 % 65536, p2 % 65536, p3>>

\* w + n for 0 <= n < 2^15
WideAdd(w, n) ==
    LET p0 == w[1] + n
        p1 == w[2] + (p0 \div 65536)
        p2 == w[3] + (p1 \div 65536)
        p3 == w[4] + (p2 \div 65536)
    IN  <<p0 % 65536, p1 % 65536, p2 % 65536, p3>>

\* ToInt32, applied by >> to its left operand: the low 32 bits, signed
WideToInt32(w) ==
    (IF w[2] >= 32768 THEN w[2] - 65536 ELSE w[2]) * 65536 + w[1]

\* Array.prototype.slice(start, end) for 0 <= start: both ends are clamped
\* to the length
Slice(a, start, end) ==
    LET e == IF end > Len(a) THEN Len(a) ELSE end
    IN  IF start >= e THEN <<>> ELSE SubSeq(a, start + 1, e)

\* constantTimeCompare: 1 on a length mismatch or at the first differing
\* element, 0 when the loop runs to the end
constantTimeCompare(a, b) ==
    IF Len(a) # Len(b) THEN 1
    ELSE IF \E i \in 1..Len(a) : a[i] # b[i] THEN 1
    ELSE 0

\* the number of times constantTimeCompare evaluates a[i] !== b[i]: none on a
\* length mismatch, up to and including the first difference otherwise
constantTimeCompareSteps(a, b) ==
    IF Len(a) # Len(b) THEN 0
    ELSE IF \E i \in 1..Len(a) : a[i] # b[i]
         THEN CHOOSE i \in 1..Len(a) :
                  /\ a[i] # b[i]
                  /\ \A j \in 1..(i - 1) : a[j] = b[j]
         ELSE Len(a)

-----------------------------------------------------------------------------
(* lib/byte-ops: the reductions (specification section 4.A)                *)

\* (x * y) mod 2^16 for 0 <= y < 2^16, by halves of y so that no product
\* leaves 32 bits
MulMod16(x, y) ==
    LET xl == x % 65536
    IN  (((xl * (y \div 256)) % 256) * 256 + xl * (y % 256)) % 65536

\* Barrett reduce: a - floor(a * 20159 / 2^26) * q
barrettReduce(a) == a - ((a * 20159) \div Pow2(26)) * paramsQ

\* Montgomery reduce of a 32-bit signed product a:
\* u = (a * qinv) mod 2^16 as a signed 16-bit value; (a - u * q) >> 16
montgomeryReduce(a) ==
    LET u == int16(MulMod16(a, paramsQinv))
    IN  Shr(a - u * paramsQ, 16)

modQMulMont(x, y) == montgomeryReduce(x * y)

-----------------------------------------------------------------------------
(* lib/poly: codec                                                         *)

\* One coefficient of polyConditionalSubQ: r -= q; r += (r >> 31) & q
CSubQNoAddBack(c) == c - paramsQ

CSubQ(c) ==
    LET d == c - paramsQ
    IN  d + BitAnd(Shr(d, 31), paramsQ)

\* polyConditionalSubQ: the first paramsN entries are rewritten, the others kept
polyConditionalSubQ(r) ==
    [n \in 1..Len(r) |-> IF n <= paramsN THEN CSubQ(r[n]) ELSE r[n]] \o <<>>

\* polyToBytes: coefficient pairs packed as two 12-bit values in three bytes
polyToBytesMaskBug(a) ==
    LET a2 == polyConditionalSubQ(a)
    IN  [n \in 1..paramsPolyBytes |->
            LET i  == (n - 1) \div 3
                t0 == uint16(At(a2, 2 * i))
                t1 == uint16(At(a2, 2 * i + 1))
            IN  CASE (n - 1) % 3 = 0 -> byte(t0)
                  [] (n - 1) % 3 = 1 -> BitOr(byte(Shr(t0, 8)), byte(Shl(t1, 4)))
                  [] OTHER           -> byte(Shr(t1, 8))]

\* polyToBytes: a2, the polynomial its loop reads
polyToBytesReads(a) == polyConditionalSubQ(a)

polyToBytes(a) ==
    LET a2 == polyToBytesReads(a)
    IN  [n \in 1..paramsPolyBytes |->
            LET i  == (n - 1) \div 3
                t0 == uint16(At(a2, 2 * i))
                t1 == uint16(At(a2, 2 * i + 1))
            IN  CASE (n - 1) % 3 = 0 -> byte(t0)
                  [] (n - 1) % 3 = 1 -> BitOr(byte(Shr(t0, 8)), byte(Shl(t1, 4)))
                  [] OTHER           -> byte(Shr(t1, 4))]

\* polyFromBytes: r = new Array(paramsPolyBytes) has 384 slots, of which the
\* loop assigns r[0..255]; slots 256..383 stay empty and are never read, so
\* the polynomial returned is modelled by its 256 assigned coefficients.
polyFromBytes(a) ==
    [n \in 1..paramsN |->
        LET i == (n - 1) \div 2
        IN  IF (n - 1) % 2 = 0
            THEN int16(BitAnd(BitOr(uint16(At(a, 3 * i)),
                                    Shl(uint16(At(a, 3 * i + 1)), 8)), 4095))
            ELSE int16(BitAnd(BitOr(Shr(uint16(At(a, 3 * i + 1)), 4),
                                    Shl(uint16(At(a, 3 * i + 2)), 4)), 4095))] \o <<>>

\* One bit of polyToMsg:
\*   (((uint16(c) << 1) + uint16(paramsQ / 2)) / uint16(paramsQ)) & 1
\* uint16(paramsQ / 2) is 1664.5: in halves, 2 * (c << 1) + paramsQ.
MsgBit(c) ==
    BitAnd(TruncHalves(2 * Shl(uint16(c), 1) + paramsQ, uint16(paramsQ)), 1)

\* message[i] |= byte(t << j) for j = 0..7, message[i] starting at 0
RECURSIVE MsgByte(_, _, _)
MsgByte(a2, i, j) ==
    IF j < 0 THEN 0
    ELSE BitOr(MsgByte(a2, i, j - 1), byte(Shl(MsgBit(At(a2, 8 * i + j)), j)))

\* polyToMsg: a2, the polynomial its loop reads
polyToMsgReads(a) == polyConditionalSubQ(a)

polyToMsg(a) ==
    LET a2 == polyToMsgReads(a)
    IN  [n \in 1..32 |-> MsgByte(a2, n - 1, 7)]

\* polyFromData: r = new Array(paramsPolyBytes).fill(0): 384 entries, the
\* first 256 set from the message bits, the last 128 left 0.
polyFromDataNoMask(message) ==
    [n \in 1..paramsPolyBytes |->
        IF n > paramsN THEN 0
        ELSE LET i == (n - 1) \div 8
                 j == (n - 1) % 8
                 mask == -int16(BitAnd(Shr(At(message, i), j), 1))
             IN  BitAnd(-1, int16((paramsQ + 1) \div 2))]

polyFromData(message) ==
    [n \in 1..paramsPolyBytes |->
        IF n > paramsN THEN 0
        ELSE LET i == (n - 1) \div 8
                 j == (n - 1) % 8
                 mask == -int16(BitAnd(Shr(At(message, i), j), 1))
             IN  BitAnd(mask, int16((paramsQ + 1) \div 2))]

\* polyVectorFromBytes: polynomial i from bytes [384 i, 384 (i + 1))
polyVectorFromBytes(K, a) ==
    [i \in 1..K |->
        polyFromBytes(Slice(a, (i - 1) * paramsPolyBytes, i * paramsPolyBytes))] \o <<>>

\* polyVectorCSubQ
polyVectorCSubQ(K, r) == [i \in 1..K |-> polyConditionalSubQ(r[i])] \o <<>>

\* t[k] of compressPolyVector: (((c << d) + paramsQ / 2) / paramsQ) & (2^d - 1)
\* with d = 10 (paramsK 2, 3) or 11; paramsQ / 2 is 1664.5, counted in halves
CompressCoeffNoRound(c, d) ==
    BitAnd(TruncHalves(2 * Shl(c, d), paramsQ), Pow2(d) - 1)

CompressCoeff(c, d) ==
    BitAnd(TruncHalves(2 * Shl(c, d) + paramsQ, paramsQ), Pow2(d) - 1)

\* the five bytes r[rr .. rr + 4] of four 10-bit values t
Pack10(t, b) ==
    CASE b = 0 -> byte(t[1])
      [] b = 1 -> byte(BitOr(byte(Shr(t[1], 8)), byte(Shl(t[2], 2))))
      [] b = 2 -> byte(BitOr(byte(Shr(t[2], 6)), byte(Shl(t[3], 4))))
      [] b = 3 -> byte(BitOr(byte(Shr(t[3], 4)), byte(Shl(t[4], 6))))
      [] OTHER -> byte(Shr(t[4], 2))

\* the eleven bytes r[rr .. rr + 10] of eight 11-bit values t
Pack11(t, b) ==
    CASE b = 0 -> byte(t[1])
      [] b = 1 -> byte(BitOr(Shr(t[1], 8), Shl(t[2], 3)))
      [] b = 2 -> byte(BitOr(Shr(t[2], 5), Shl(t[3], 6)))
      [] b = 3 -> byte(Shr(t[3], 2))
      [] b = 4 -> byte(BitOr(Shr(t[3], 10), Shl(t[4], 1)))
      [] b = 5 -> byte(BitOr(Shr(t[4], 7), Shl(t[5], 4)))
      [] b = 6 -> byte(BitOr(Shr(t[5], 4), Shl(t[6], 7)))
      [] b = 7 -> byte(Shr(t[6], 1))
      [] b = 8 -> byte(BitOr(Shr(t[6], 9), Shl(t[7], 2)))
      [] b = 9 -> byte(BitOr(Shr(t[7], 6), Shl(t[8], 5)))
      [] OTHER -> byte(Shr(t[8], 3))

\* compressPolyVector: a = this.polyVectorCSubQ(a), the vector its loops read
compressPolyVectorReads(K, a0) == polyVectorCSubQ(K, a0)

\* compressPolyVector: paramsK in {2, 3}: for each polynomial, for each of
\* its paramsN / 4 groups of four coefficients, five bytes; otherwise for
\* each of its paramsN / 8 groups of eight coefficients, eleven bytes
compressPolyVector(K, a0) ==
    LET a == compressPolyVectorReads(K, a0)
    IN  IF K = 2 \/ K = 3
        THEN LET tt == [i \in 1..K |->
                          [n \in 1..paramsN |-> CompressCoeff(a[i][n], 10)] \o <<>>] \o <<>>
             IN  [n \in 1..(K * (paramsN \div 4) * 5) |->
                    LET g == (n - 1) \div 5
                        i == g \div (paramsN \div 4)
                        j == g % (paramsN \div 4)
                        t == [k \in 1..4 |-> At(tt[i + 1], 4 * j + k - 1)]
                    IN  Pack10(t, (n - 1) % 5)] \o <<>>
        ELSE LET tt == [i \in 1..K |->
                          [n \in 1..paramsN |->
                              int32(CompressCoeff(int32(a[i][n]), 11))] \o <<>>] \o <<>>
             IN  [n \in 1..(K * (paramsN \div 8) * 11) |->
                    LET g == (n - 1) \div 11
                        i == g \div (paramsN \div 8)
                        j == g % (paramsN \div 8)
                        t == [k \in 1..8 |-> At(tt[i + 1], 8 * j + k - 1)]
                    IN  Pack11(t, (n - 1) % 11)] \o <<>>

\* t[j] of compressPoly: intToByte(int32(((c << d) + qDiv2) / paramsQ) & (2^d - 1))
\* with d = 4 (paramsK 2, 3) or 5
CompressPolyCoeffNoRound(c, d) ==
    intToByte(BitAnd(TruncHalves(2 * int32(Shl(c, d)), paramsQ), Pow2(d) - 1))

CompressPolyCoeff(c, d) ==
    intToByte(BitAnd(TruncHalves(2 * int32(Shl(c, d)) + paramsQ, paramsQ), Pow2(d) - 1))

\* the four bytes r[rr .. rr + 3] of eight 4-bit values t
Pack4(t, b) == intToByte(BitOr(t[2 * b + 1], Shl(t[2 * b + 2], 4)))

\* the five bytes r[rr .. rr + 4] of eight 5-bit values t
Pack5(t, b) ==
    CASE b = 0 -> intToByte(BitOr(t[1], Shl(t[2], 5)))
      [] b = 1 -> intToByte(BitOr(BitOr(Shr(t[2], 3), Shl(t[3], 2)), Shl(t[4], 7)))
      [] b = 2 -> intToByte(BitOr(Shr(t[4], 1), Shl(t[5], 4)))
      [] b = 3 -> intToByte(BitOr(BitOr(Shr(t[5], 4), Shl(t[6], 1)), Shl(t[7], 6)))
      [] OTHER -> intToByte(BitOr(Shr(t[7], 2), Shl(t[8], 3)))

\* compressPoly: its loops read polyA as it is passed
compressPolyReads(polyA) == polyA

\* compressPoly: for each of the paramsN / 8 groups of eight coefficients,
\* four bytes (paramsK in {2, 3}) or five; the input is not reduced first
compressPoly(K, polyA) ==
    LET a == compressPolyReads(polyA)
        d == IF K = 2 \/ K = 3 THEN 4 ELSE 5
        tt == [n \in 1..paramsN |-> CompressPolyCoeff(a[n], d)] \o <<>>
    IN  IF K = 2 \/ K = 3
        THEN [n \in 1..((paramsN \div 8) * 4) |->
                LET i == (n - 1) \div 4
                    t == [j \in 1..8 |-> At(tt, 8 * i + j - 1)]
                IN  Pack4(t, (n - 1) % 4)] \o <<>>
        ELSE [n \in 1..((paramsN \div 8) * 5) |->
                LET i == (n - 1) \div 5
                    t == [j \in 1..8 |-> At(tt, 8 * i + j - 1)]
                IN  Pack5(t, (n - 1) % 5)] \o <<>>

\* decompressPolyVector, paramsK in {2, 3}: t[k] of the five bytes from a[aa]
Unpack10(a, aa, k) ==
    CASE k = 0 -> BitOr(uint16(At(a, aa)), Shl(uint16(At(a, aa + 1)), 8))
      [] k = 1 -> BitOr(Shr(uint16(At(a, aa + 1)), 2), Shl(uint16(At(a, aa + 2)), 6))
      [] k = 2 -> BitOr(Shr(uint16(At(a, aa + 2)), 4), Shl(uint16(At(a, aa + 3)), 4))
      [] OTHER -> BitOr(Shr(uint16(At(a, aa + 3)), 6), Shl(uint16(At(a, aa + 4)), 2))

\* decompressPolyVector, otherwise: t[k] of the eleven bytes from a[aa]
Unpack11(a, aa, k) ==
    CASE k = 0 -> BitOr(uint16(At(a, aa)), Shl(uint16(At(a, aa + 1)), 8))
      [] k = 1 -> BitOr(Shr(uint16(At(a, aa + 1)), 3), Shl(uint16(At(a, aa + 2)), 5))
      [] k = 2 -> BitOr(BitOr(Shr(uint16(At(a, aa + 2)), 6),
                              Shl(uint16(At(a, aa + 3)), 2)),
                        Shl(uint16(At(a, aa + 4)), 10))
      [] k = 3 -> BitOr(Shr(uint16(At(a, aa + 4)), 1), Shl(uint16(At(a, aa + 5)), 7))
      [] k = 4 -> BitOr(Shr(uint16(At(a, aa + 5)), 4), Shl(uint16(At(a, aa + 6)), 4))
      [] k = 5 -> BitOr(BitOr(Shr(uint16(At(a, aa + 6)), 7),
                              Shl(uint16(At(a, aa + 7)), 1)),
                        Shl(uint16(At(a, aa + 8)), 9))
      [] k = 6 -> BitOr(Shr(uint16(At(a, aa + 8)), 2), Shl(uint16(At(a, aa + 9)), 6))
      [] OTHER -> BitOr(Shr(uint16(At(a, aa + 9)), 5), Shl(uint16(At(a, aa + 10)), 3))

\* r[i][...] of decompressPolyVector: (uint32(t & (2^d - 1)) * paramsQ + 2^(d-1)) >> d
DecompressCoeffNoRound(t, d) ==
    Shr(WideToInt32(WideMul(uint32(BitAnd(t, Pow2(d) - 1)), paramsQ)), d)

DecompressCoeff(t, d) ==
    Shr(WideToInt32(WideAdd(WideMul(uint32(BitAnd(t, Pow2(d) - 1)), paramsQ),
                            Pow2(d - 1))), d)

\* decompressPolyVector
decompressPolyVector(K, a) ==
    IF K = 2 \/ K = 3
    THEN [i \in 1..K |->
            [n \in 1..paramsN |->
                LET j == (n - 1) \div 4
                    aa == 5 * ((i - 1) * (paramsN \div 4) + j)
                IN  DecompressCoeff(Unpack10(a, aa, (n - 1) % 4), 10)] \o <<>>] \o <<>>
    ELSE [i \in 1..K |->
            [n \in 1..paramsN |->
                LET j == (n - 1) \div 8
                    aa == 11 * ((i - 1) * (paramsN \div 8) + j)
                IN  DecompressCoeff(Unpack11(a, aa, (n - 1) % 8), 11)] \o <<>>] \o <<>>

\* decompressPoly, paramsK not in {2, 3}: t[j] of the five bytes from a[aa]
Unpack5(a, aa, j) ==
    CASE j = 0 -> At(a, aa)
      [] j = 1 -> BitOr(byte(Shr(At(a, aa), 5)), byte(Shl(At(a, aa + 1), 3)))
      [] j = 2 -> Shr(At(a, aa + 1), 2)
      [] j = 3 -> BitOr(byte(Shr(At(a, aa + 1), 7)), byte(Shl(At(a, aa + 2), 1)))
      [] j = 4 -> BitOr(byte(Shr(At(a, aa + 2), 4)), byte(Shl(At(a, aa + 3), 4)))
      [] j = 5 -> Shr(At(a, aa + 3), 1)
      [] j = 6 -> BitOr(byte(Shr(At(a, aa + 3), 6)), byte(Shl(At(a, aa + 4), 2)))
      [] OTHER -> Shr(At(a, aa + 4), 3)

\* r[...] of decompressPoly: int16(((y * uint32(paramsQ)) + 2^(d-1)) >> d)
DecompressPolyCoeff(y, d) ==
    int16(Shr(WideToInt32(WideAdd(WideMul(uint32(paramsQ), y), Pow2(d - 1))), d))

\* decompressPoly: r = new Array(384), of which the loops assign r[0..255];
\* the polynomial returned is modelled by its 256 assigned coefficients
decompressPoly(K, a) ==
    IF K = 2 \/ K = 3
    THEN [n \in 1..paramsN |->
            LET aa == (n - 1) \div 2
            IN  IF (n - 1) % 2 = 0
                THEN DecompressPolyCoeff(BitAnd(byte(At(a, aa)), 15), 4)
                ELSE DecompressPolyCoeff(Shr(byte(At(a, aa)), 4), 4)] \o <<>>
    ELSE [n \in 1..paramsN |->
            LET aa == 5 * ((n - 1) \div 8)
            IN  DecompressPolyCoeff(byte(BitAnd(Unpack5(a, aa, (n - 1) % 8), 31)), 5)] \o <<>>

-----------------------------------------------------------------------------
(* lib/poly: the transforms                                                *)
(*                                                                         *)
(* Both loops run layer by layer; within a layer the butterflies touch     *)
(* disjoint pairs (j, j + l), so a layer is one array update.  k starts at *)
(* 1 (ntt) or 0 (invNTT) and is incremented once per group: the group      *)
(* starting at `start` of the layer of length l reads the index below.     *)

nttZetaIndex(l, start) == (128 \div l) + (start \div (2 * l))
invNTTZetaIndexShifted(l, start) == (128 - (256 \div l)) + (start \div (2 * l)) + 1
invNTTZetaIndex(l, start) == (128 - (256 \div l)) + (start \div (2 * l))

\* one layer of ntt:  t = modQMulMont(zeta, r[j + l]);
\*                    r[j + l] = int16(r[j] - t);  r[j] = int16(r[j] + t)
nttLayer(r, l) ==
    [n \in 1..Len(r) |->
        IF n > 256 THEN r[n]
        ELSE LET idx   == n - 1
                 start == (idx \div (2 * l)) * (2 * l)
                 zeta  == At(nttZetas, nttZetaIndex(l, start))
             IN  IF idx < start + l
                 THEN int16(At(r, idx) + modQMulMont(zeta, At(r, idx + l)))
                 ELSE int16(At(r, idx - l) - modQMulMont(zeta, At(r, idx)))]
    \o <<>>

\* for (l = 128; l >= 2; l >>= 1)
RECURSIVE nttFrom(_, _)
nttFrom(r, l) == IF l >= 2 THEN nttFrom(nttLayer(r, l), l \div 2) ELSE r

ntt(r) == nttFrom(r, 128)

\* one layer of invNTT:  t = r[j];  r[j] = barrettReduce(t + r[j + l]);
\*                       r[j + l] = modQMulMont(zeta, t - r[j + l])
invNTTLayer(r, l) ==
    [n \in 1..Len(r) |->
        IF n > 256 THEN r[n]
        ELSE LET idx   == n - 1
                 start == (idx \div (2 * l)) * (2 * l)
                 zeta  == At(nttZetasInv, invNTTZetaIndex(l, start))
             IN  IF idx < start + l
                 THEN barrettReduce(At(r, idx) + At(r, idx + l))
                 ELSE modQMulMont(zeta, At(r, idx - l) - At(r, idx))]
    \o <<>>

\* for (l = 2; l <= 128; l <<= 1)
RECURSIVE invNTTFrom(_, _)
invNTTFrom(r, l) == IF l <= 128 THEN invNTTFrom(invNTTLayer(r, l), 2 * l) ELSE r

\* the layers, then r[j] = modQMulMont(r[j], nttZetasInv[127]) for j < 256
invNTT(r) ==
    LET s == invNTTFrom(r, 2)
    IN  [n \in 1..Len(s) |->
            IF n > 256 THEN s[n] ELSE modQMulMont(s[n], At(nttZetasInv, 127))]

-----------------------------------------------------------------------------
(* The hashes (package sha3) and the random source (randomIntUpTo)         *)
(*                                                                         *)
(* SHA3-256, SHA3-512 and SHAKE-256 are external; they are modelled as     *)
(* deterministic functions from a byte string to 32, 64 and 32 bytes: a    *)
(* checksum of the input, spread over the output.                          *)

RECURSIVE SumBytes(_, _, _)
SumBytes(d, lo, hi) ==
    IF lo > hi THEN 0
    ELSE IF lo = hi THEN d[lo]
    ELSE LET mid == (lo + hi) \div 2
         IN  SumBytes(d, lo, mid) + SumBytes(d, mid + 1, hi)

RECURSIVE SumWeighted(_, _, _)
SumWeighted(d, lo, hi) ==
    IF lo > hi THEN 0
    ELSE IF lo = hi THEN ((lo % 251) + 1) * d[lo]
    ELSE LET mid == (lo + hi) \div 2
         IN  SumWeighted(d, lo, mid) + SumWeighted(d, mid + 1, hi)

Digest(tag, outLen, data) ==
    LET s1 == SumBytes(data, 1, Len(data)) % 32749
        s2 == SumWeighted(data, 1, Len(data)) % 32749
    IN  [n \in 1..outLen |->
            (((s1 + 31 * n + tag) % 32749) * ((s2 + 17 * n + Len(data)) % 32749)
                + s1 + n) % 256]

\* new SHA3(256).update(data).digest()
SHA3_256(data) == Digest(1, 32, data)
\* new SHA3(512).update(data).digest()
SHA3_512(data) == Digest(2, 64, data)
\* new SHAKE(256).update(data).digest()
SHAKE256(data) == Digest(3, KyberSSBytes, data)

MaxSeed == 1

\* paramsSymBytes bytes of randomIntUpTo(256): draw number s of the few the
\* model lets the random source make
RandomBytes(s) == [n \in 1..paramsSymBytes |-> (97 * s + 13 * n + s * n * n) % 256]

-----------------------------------------------------------------------------
(* lib/poly: the noise sampler                                             *)

\* generatePRFByteArray: l bytes of SHAKE-256 over key || [nonce]
generatePRFByteArray(l, key, nonce) == Digest(3, l, key \o <<nonce % 256>>)

RECURSIVE BitSum(_, _, _)
BitSum(p, from, n) == IF n = 0 THEN 0 ELSE BitOf(p, from) + BitSum(p, from + 1, n - 1)

\* lib/byte-ops generateCBDPoly (section 4.B): eta is 3 for paramsK = 2 and 2
\* otherwise; coefficient i is the popcount of eta bits minus the popcount of
\* the next eta bits
CBDEta(K) == IF K = 2 THEN paramsETAK512 ELSE paramsETAK768K1024

generateCBDPoly(p, K) ==
    [n \in 1..paramsN |->
        BitSum(p, 2 * CBDEta(K) * (n - 1), CBDEta(K))
            - BitSum(p, 2 * CBDEta(K) * (n - 1) + CBDEta(K), CBDEta(K))] \o <<>>

\* getNoisePoly: the length l of the PRF output it asks for
getNoisePolyLen(K) ==
    IF K = 2 THEN (paramsETAK512 * paramsN) \div 4
    ELSE (paramsETAK768K1024 * paramsN) \div 4

\* getNoisePoly(seed, nonce, paramsK)
getNoisePoly(seed, nonce, K) ==
    generateCBDPoly(generatePRFByteArray(getNoisePolyLen(K), seed, nonce), K)

-----------------------------------------------------------------------------
(* lib/indcpa: the IND-CPA layer (specification sections 3 and 4.E)        *)
(*                                                                         *)
(* Modelled by a stand-in public-key scheme with the interface and the     *)
(* lengths of section 3 and the property the KEM relies on:                *)
(*   indcpaDecrypt(indcpaEncrypt(pk, m, coins), sk) = m  for a key pair.   *)
(* sk is a byte stream s drawn from the key seed, pk carries t = 5 s, the  *)
(* ciphertext carries u = 5 r for a stream r drawn from the coins and      *)
(* v = m + t r; decryption subtracts s u = t r (all modulo 256).           *)
(* What the layer does with an input of a wrong length is not specified:   *)
(* it may throw, or return bytes that mean nothing.                        *)

IndcpaStream(seed, n) ==
    (seed[((n - 1) % paramsSymBytes) + 1] * (1 + 2 * ((n - 1) \div paramsSymBytes)) + n) % 256

IndcpaSecretKeyLen(K) == K * paramsPolyBytes
IndcpaPublicKeyLen(K) == K * paramsPolyBytes + paramsSymBytes
IndcpaULen(K) == IF K = 4 THEN K * 352 ELSE K * 320
IndcpaVLen(K) == IF K = 4 THEN 160 ELSE 128

IndcpaPad(x, y, j) ==
    (x[j] * y[j] + x[j + paramsSymBytes] * y[j + paramsSymBytes]) % 256

\* indcpaKeyGen with the 32 random bytes d it draws: [pk, sk]
indcpaKeyGen(K, d) ==
    LET g     == SHA3_512(d)
        rho   == SubSeq(g, 1, 32)
        sigma == SubSeq(g, 33, 64)
        sv    == [n \in 1..IndcpaSecretKeyLen(K) |-> IndcpaStream(sigma, n)]
        t     == [n \in 1..IndcpaSecretKeyLen(K) |-> (5 * sv[n]) % 256]
    IN  [pk |-> t \o rho, sk |-> sv \o <<>>]

indcpaEncryptBytes(K, pk, m, coins) ==
    LET r == [n \in 1..IndcpaULen(K) |-> IndcpaStream(coins, n)]
        u == [n \in 1..IndcpaULen(K) |-> (5 * r[n]) % 256]
        v == [n \in 1..IndcpaVLen(K) |->
                LET j == ((n - 1) % paramsSymBytes) + 1
                IN  (m[j] + IndcpaPad(pk, r, j) + ((n - 1) \div paramsSymBytes)) % 256]
    IN  u \o v

indcpaDecryptBytes(K, ct, sk) ==
    [j \in 1..paramsSymBytes |-> (ct[IndcpaULen(K) + j] - IndcpaPad(sk, ct, j)) % 256]

ZeroBytes(n) == [i \in 1..n |-> 0]

\* the ways a call of indcpaEncrypt can end
indcpaEncrypt(K, pk, m, coins) ==
    IF Len(pk) = IndcpaPublicKeyLen(K) /\ Len(m) = paramsSymBytes
           /\ Len(coins) = paramsSymBytes
    THEN {[threw |-> FALSE, value |-> indcpaEncryptBytes(K, pk, m, coins)]}
    ELSE {[threw |-> TRUE, value |-> <<>>],
          [threw |-> FALSE, value |-> ZeroBytes(IndcpaULen(K) + IndcpaVLen(K))]}

\* the ways a call of indcpaDecrypt can end
indcpaDecrypt(K, ct, sk) ==
    IF Len(ct) = IndcpaULen(K) + IndcpaVLen(K) /\ Len(sk) = IndcpaSecretKeyLen(K)
    THEN {[threw |-> FALSE, value |-> indcpaDecryptBytes(K, ct, sk)]}
    ELSE {[threw |-> TRUE, value |-> <<>>],
          [threw |-> FALSE, value |-> ZeroBytes(paramsSymBytes)]}

-----------------------------------------------------------------------------
(* services/kyber.service: the KEM                                         *)

\* generateKyberKeys: sk.push(...pk); sk.push(...pkHash); sk.push(...rnd)
SecretKeyNoHash(skCpa, pk, pkHash, rnd) == skCpa \o pk \o rnd
SecretKey(skCpa, pk, pkHash, rnd) == skCpa \o pk \o pkHash \o rnd

\* generateKyberKeys, with the bytes d that indcpaKeyGen draws and the bytes
\* rnd that it draws itself
generateKyberKeys(K, d, rnd) ==
    LET kp == indcpaKeyGen(K, d)
        pkHash == SHA3_256(kp.pk)
    IN  [pk |-> kp.pk, sk |-> SecretKey(kp.sk, kp.pk, pkHash, rnd),
         skCpa |-> kp.sk, z |-> rnd]

\* encrypt up to its call of indcpaEncrypt: rndHash, the key and the coins
encryptDeriveSwapped(publicKey, rnd) ==
    LET rndHash == SHA3_256(rnd)
        pkh == SHA3_256(publicKey)
        kr == SHA3_512(rndHash \o pkh)
    IN  [rndHash |-> rndHash,
         kr1 |-> Slice(kr, paramsSymBytes, Len(kr)),
         kr2 |-> Slice(kr, paramsSymBytes, Len(kr))]

encryptDerive(publicKey, rnd) ==
    LET rndHash == SHA3_256(rnd)
        pkh == SHA3_256(publicKey)
        kr == SHA3_512(rndHash \o pkh)
    IN  [rndHash |-> rndHash,
         kr1 |-> Slice(kr, 0, paramsSymBytes),
         kr2 |-> Slice(kr, paramsSymBytes, Len(kr))]

\* the shared secret of encrypt and of decrypt:
\* SHAKE(256).update(kr1).update(cipherTextHash).digest()
SharedSecret(kr1, cipherText) == SHAKE256(kr1 \o SHA3_256(cipherText))

\* decrypt: endIndex after the first if-chain, and after the second
DecryptSkEnd(K) ==
    IF K = 2 THEN paramsIndcpaSecretKeyBytesK512
    ELSE IF K = 3 THEN paramsIndcpaSecretKeyBytesK768
    ELSE paramsIndcpaSecretKeyBytesK1024

DecryptPkEnd(K) ==
    DecryptSkEnd(K) +
        (IF K = 2 THEN paramsIndcpaPublicKeyBytesK512
         ELSE IF K = 3 THEN paramsIndcpaPublicKeyBytesK768
         ELSE paramsIndcpaPublicKeyBytesK1024)

\* decrypt: kyberSKBytes (computed, not used)
DecryptKyberSKBytes(K) ==
    IF K = 2 THEN Kyber512SKBytes
    ELSE IF K = 3 THEN Kyber768SKBytes
    ELSE Kyber1024SKBytes

\* decrypt: the three slices of privateKey, and the bytes privateKey[index]
\* read from index = privateKey.length - paramsSymBytes on
decryptParseShifted(K, privateKey) ==
    [indcpaPrivateKey |-> Slice(privateKey, 0, DecryptSkEnd(K)),
     indcpaPublicKey  |-> Slice(privateKey, DecryptSkEnd(K), DecryptPkEnd(K)),
     pkHash |-> Slice(privateKey, DecryptPkEnd(K) + paramsSymBytes,
                      DecryptPkEnd(K) + 2 * paramsSymBytes),
     zIndex |-> Len(privateKey) - paramsSymBytes,
     z      |-> [i \in 1..paramsSymBytes |->
                    privateKey[Len(privateKey) - paramsSymBytes + i]]]

decryptParse(K, privateKey) ==
    [indcpaPrivateKey |-> Slice(privateKey, 0, DecryptSkEnd(K)),
     indcpaPublicKey  |-> Slice(privateKey, DecryptSkEnd(K), DecryptPkEnd(K)),
     pkHash |-> Slice(privateKey, DecryptPkEnd(K), DecryptPkEnd(K) + paramsSymBytes),
     zIndex |-> Len(privateKey) - paramsSymBytes,
     z      |-> [i \in 1..paramsSymBytes |->
                    privateKey[Len(privateKey) - paramsSymBytes + i]]]

\* decrypt: the loop over kr = [...krBuf]:
\*   kr[i] = intToByte(kr[i] ^ ((fail & 0xFF) & (kr[i] ^ privateKey[index])))
decryptMaskKr(kr, fail, z) ==
    [i \in 1..Len(kr) |->
        IF i <= paramsSymBytes
        THEN intToByte(BitXor(kr[i], BitAnd(BitAnd(fail, 255), BitXor(kr[i], z[i]))))
        ELSE kr[i]]

\* decrypt: kr1 = krBuf.slice(0, paramsSymBytes) is a view of krBuf; the loop
\* above writes to the copy kr, so kr1 holds the bytes of krBuf to the end
decryptKr1(krBuf, kr) == Slice(krBuf, 0, paramsSymBytes)

-----------------------------------------------------------------------------
(* One key exchange: construct, generate keys, encrypt, decrypt            *)

MaxParamsK == 5

SupportedK == {2, 3, 4}

NoKeys == [pk |-> <<>>, sk |-> <<>>, skCpa |-> <<>>, z |-> <<>>]
NoEnc == [publicKey |-> <<>>, outcome |-> "none", work |-> <<>>,
          rndHash |-> <<>>, kr1 |-> <<>>, cipherText |-> <<>>, sharedSecret |-> <<>>]
NoDec == [cipherText |-> <<>>, privateKey |-> <<>>, outcome |-> "none", work |-> <<>>,
          indcpaPrivateKey |-> <<>>, indcpaPublicKey |-> <<>>, pkHash |-> <<>>,
          zIndex |-> 0, z |-> <<>>, m |-> <<>>, krBuf |-> <<>>, kr |-> <<>>,
          cmp |-> <<>>, fail |-> 0, sharedSecret |-> <<>>]

PureIdle ==
    /\ pureKind = "idle"
    /\ pureOp = "none"
    /\ pureIn = <<>>
    /\ pureMid = <<>>
    /\ pureOut = <<>>

KemIdle ==
    /\ paramsK = 0
    /\ kemPhase = "idle"
    /\ kemKeys = NoKeys
    /\ kemEnc = NoEnc
    /\ kemDec = NoDec

Init ==
    /\ paramsK = 0
    /\ kemPhase = "new"
    /\ kemKeys = NoKeys
    /\ kemEnc = NoEnc
    /\ kemDec = NoDec
    /\ PureIdle

\* KyberService.constructor: the parameter property paramsK is assigned, then
\* this.indcpa = new Indcpa(paramsK).  The service's constructor does not look
\* at the value; what the constructor of Indcpa does with a paramsK outside
\* {2, 3, 4} is not known: it may return, or throw (no instance then).
Construct ==
    /\ kemPhase = "new"
    /\ \E k \in 1..MaxParamsK :
          \/ /\ paramsK' = k
             /\ kemPhase' = "constructed"
          \/ /\ k \notin SupportedK
             /\ paramsK' = 0
             /\ kemPhase' = "failed"
    /\ UNCHANGED <<kemKeys, kemEnc, kemDec, pureVars>>

\* generateKyberKeys (the IND-CPA layer is specified for paramsK in {2, 3, 4})
GenerateKyberKeys ==
    /\ kemPhase = "constructed"
    /\ paramsK \in SupportedK
    /\ \E sd \in 0..MaxSeed, sz \in 0..MaxSeed :
          kemKeys' = generateKyberKeys(paramsK, RandomBytes(sd), RandomBytes(sz + 2))
    /\ kemPhase' = "keys"
    /\ UNCHANGED <<paramsK, kemEnc, kemDec, pureVars>>

\* a byte array one byte short
Truncated(a) == SubSeq(a, 1, Len(a) - 1)
\* a byte array with bit 0 of byte i (zero-based) flipped
Flipped(a, i) == [a EXCEPT ![i + 1] = BitXor(a[i + 1], 1)]

\* encrypt(publicKey): the caller passes the public key or one of a wrong length
Encrypt ==
    /\ kemPhase = "keys"
    /\ \E publicKey \in {kemKeys.pk, Truncated(kemKeys.pk)}, sr \in 0..MaxSeed :
          LET dv == encryptDerive(publicKey, RandomBytes(sr + 4))
          IN  \E o \in indcpaEncrypt(paramsK, publicKey, dv.rndHash, dv.kr2) :
                kemEnc' =
                    IF o.threw
                    THEN [NoEnc EXCEPT
                            !.publicKey = publicKey, !.outcome = "threw",
                            !.work = <<"random", "hash", "hash", "hash", "indcpaEncrypt">>,
                            !.rndHash = dv.rndHash, !.kr1 = dv.kr1]
                    ELSE [publicKey |-> publicKey, outcome |-> "returned",
                          work |-> <<"random", "hash", "hash", "hash", "indcpaEncrypt",
                                     "hash", "hash">>,
                          rndHash |-> dv.rndHash, kr1 |-> dv.kr1,
                          cipherText |-> o.value,
                          sharedSecret |-> SharedSecret(dv.kr1, o.value)]
    /\ kemPhase' = "enc"
    /\ UNCHANGED <<paramsK, kemKeys, kemDec, pureVars>>

\* decrypt(cipherText, privateKey) after an encapsulation to the generated
\* public key: the caller passes the ciphertext received, one changed in its
\* first or its last byte, or one of a wrong length, and the secret key or
\* one of a wrong length
Decrypt ==
    /\ kemPhase = "enc"
    /\ kemEnc.outcome = "returned"
    /\ kemEnc.publicKey = kemKeys.pk
    /\ \E cipherText \in {kemEnc.cipherText, Flipped(kemEnc.cipherText, 0),
                          Flipped(kemEnc.cipherText, Len(kemEnc.cipherText) - 1),
                          Truncated(kemEnc.cipherText)},
          privateKey \in {kemKeys.sk, Truncated(kemKeys.sk)} :
          LET p == decryptParse(paramsK, privateKey)
              parsed == [NoDec EXCEPT
                            !.cipherText = cipherText, !.privateKey = privateKey,
                            !.indcpaPrivateKey = p.indcpaPrivateKey,
                            !.indcpaPublicKey = p.indcpaPublicKey,
                            !.pkHash = p.pkHash]
          IN  \E o1 \in indcpaDecrypt(paramsK, cipherText, p.indcpaPrivateKey) :
                IF o1.threw
                THEN kemDec' = [parsed EXCEPT
                                   !.outcome = "threw",
                                   !.work = <<"slice", "slice", "slice", "indcpaDecrypt">>]
                ELSE LET m == o1.value
                         krBuf == SHA3_512(m \o p.pkHash)
                         kr2 == Slice(krBuf, paramsSymBytes, Len(krBuf))
                     IN  \E o2 \in indcpaEncrypt(paramsK, p.indcpaPublicKey, m, kr2) :
                           IF o2.threw
                           THEN kemDec' = [parsed EXCEPT
                                   !.outcome = "threw", !.m = m, !.krBuf = krBuf,
                                   !.work = <<"slice", "slice", "slice", "indcpaDecrypt",
                                              "hash", "indcpaEncrypt">>]
                           ELSE LET fail == constantTimeCompare(cipherText, o2.value)
                                    kr == decryptMaskKr(krBuf, fail, p.z)
                                IN  kemDec' = [parsed EXCEPT
                                       !.outcome = "returned", !.m = m, !.krBuf = krBuf,
                                       !.cmp = o2.value, !.fail = fail,
                                       !.zIndex = p.zIndex, !.z = p.z, !.kr = kr,
                                       !.work = <<"slice", "slice", "slice",
                                                  "indcpaDecrypt", "hash", "indcpaEncrypt",
                                                  "compare", "hash", "hash">>,
                                       !.sharedSecret =
                                           SharedSecret(decryptKr1(krBuf, kr), cipherText)]
    /\ kemPhase' = "dec"
    /\ UNCHANGED <<paramsK, kemKeys, kemEnc, pureVars>>

Next == Construct \/ GenerateKyberKeys \/ Encrypt \/ Decrypt

Spec == Init /\ [][Next]_vars

-----------------------------------------------------------------------------
(* Harness of the pure functions: the inputs they are applied to           *)

MaxPolyBase == 26
MaxPolyStride == 4
MaxMsgBase == 31
MaxMsgStride == 7

\* Polynomials with coefficients in [0, q): coefficient i is base + stride * i
\* (mod q); base 3328, stride 0 is the polynomial of all q - 1.  With stride 1
\* the bases, 127 apart, put every value of [0, q) at an even and an odd index.
PolyBase(s) == (paramsQ - 1 + (paramsQ - 127) * s) % paramsQ
PolyInput(s, b) == [n \in 1..paramsN |-> (PolyBase(s) + b * (n - 1)) % paramsQ]

\* 32-byte messages: byte i is 8 * base + stride * i (mod 256)
MsgInput(s, b) == [n \in 1..32 |-> (8 * s + b * (n - 1)) % 256]

MaxCmpLen == 2

\* nonces of the noise draws: 0 .. 2K are those of one encryption
MaxNonce == 4

\* byte arrays of length n over two byte values
CmpArrays(n) == [1..n -> {0, 255}]

\* the inverse transform's output as a residue: 2^16 mod q
MontR == 65536 % paramsQ

\* the harness starts with an input drawn; one action applies a function to it
PureInit ==
    /\ KemIdle
    /\ pureOp = "none"
    /\ pureMid = <<>>
    /\ pureOut = <<>>
    /\ \/ /\ pureKind = "poly"
          /\ pureIn \in {PolyInput(s, b) : s \in 0..MaxPolyBase, b \in 0..MaxPolyStride}
       \/ /\ pureKind = "msg"
          /\ pureIn \in {MsgInput(s, b) : s \in 0..MaxMsgBase, b \in 0..MaxMsgStride}
       \/ /\ pureKind = "cmp"
          /\ \E n \in 0..MaxCmpLen :
                pureIn \in [a1 : CmpArrays(n), b1 : CmpArrays(n),
                            a2 : CmpArrays(n), b2 : CmpArrays(n)]
       \/ /\ pureKind = "paramsK"
          /\ pureIn \in 1..MaxParamsK
       \/ /\ pureKind = "noise"
          /\ pureIn \in [seed : {RandomBytes(sd) : sd \in 0..MaxSeed},
                         nonce : 0..MaxNonce, paramsK : SupportedK]

\* polyFromBytes(polyToBytes(p))
BytesRoundTrip ==
    /\ pureOp = "none"
    /\ pureKind = "poly"
    /\ pureOp' = "bytes"
    /\ pureMid' = polyToBytes(pureIn)
    /\ pureOut' = polyFromBytes(polyToBytes(pureIn))
    /\ UNCHANGED <<pureKind, pureIn, kemVars>>

\* polyToMsg(polyFromData(m))
MsgRoundTrip ==
    /\ pureOp = "none"
    /\ pureKind = "msg"
    /\ pureOp' = "msg"
    /\ pureMid' = polyFromData(pureIn)
    /\ pureOut' = polyToMsg(polyFromData(pureIn))
    /\ UNCHANGED <<pureKind, pureIn, kemVars>>

\* invNTT(ntt(p))
NttRoundTrip ==
    /\ pureOp = "none"
    /\ pureKind = "poly"
    /\ pureOp' = "ntt"
    /\ pureMid' = ntt(pureIn)
    /\ pureOut' = invNTT(ntt(pureIn))
    /\ UNCHANGED <<pureKind, pureIn, kemVars>>

\* two runs of constantTimeCompare, on (a1, b1) and on (a2, b2)
CompareTwice ==
    /\ pureOp = "none"
    /\ pureKind = "cmp"
    /\ pureOp' = "cmp"
    /\ pureMid' = <<constantTimeCompare(pureIn.a1, pureIn.b1),
                    constantTimeCompare(pureIn.a2, pureIn.b2)>>
    /\ pureOut' = <<constantTimeCompareSteps(pureIn.a1, pureIn.b1),
                    constantTimeCompareSteps(pureIn.a2, pureIn.b2)>>
    /\ UNCHANGED <<pureKind, pureIn, kemVars>>

\* new Poly(paramsK): the constructor stores paramsK and does nothing else;
\* the instance then compresses the zero polynomial
PolyConstruct ==
    /\ pureOp = "none"
    /\ pureKind = "paramsK"
    /\ pureOp' = "Poly"
    /\ pureMid' = [paramsK |-> pureIn]
    /\ pureOut' = compressPoly(pureIn, [n \in 1..paramsN |-> 0])
    /\ UNCHANGED <<pureKind, pureIn, kemVars>>

\* getNoisePoly(seed, nonce, paramsK) on the engine of a paramsK instance
GetNoisePoly ==
    /\ pureOp = "none"
    /\ pureKind = "noise"
    /\ pureOp' = "noise"
    /\ pureMid' = generatePRFByteArray(getNoisePolyLen(pureIn.paramsK),
                                       pureIn.seed, pureIn.nonce)
    /\ pureOut' = getNoisePoly(pureIn.seed, pureIn.nonce, pureIn.paramsK)
    /\ UNCHANGED <<pureKind, pureIn, kemVars>>

PureNext ==
    \/ BytesRoundTrip
    \/ MsgRoundTrip
    \/ NttRoundTrip
    \/ CompareTwice
    \/ PolyConstruct
    \/ GetNoisePoly

SpecPure == PureInit /\ [][PureNext]_vars

-----------------------------------------------------------------------------
(* Harness of the codecs: polynomials that are not reduced, byte strings   *)

\* polynomial s holds the 256 consecutive values from 1 - q + 256 s on: with
\* s in 0 .. 39 the coefficients run over every value of (-q, 2q)
MaxRawBlock == 39

RawPolyInput(sb) == [n \in 1..paramsN |-> (1 - paramsQ) + paramsN * sb + (n - 1)]

\* a vector of K polynomials made of p: polynomial i is p rotated by 67 i places
PolyVecInput(K, p) ==
    [i \in 1..K |-> [n \in 1..paramsN |-> p[((n - 1 + 67 * (i - 1)) % paramsN) + 1]]]

\* byte strings: string "values", sb packs the d-bit values 512 sb, 512 sb + 1,
\* ... (mod 2^d) low bit first, so that with sb in 0 .. 3 every d-bit value
\* is unpacked; string "stride", sb holds the bytes 37 sb + 101 i (mod 256)
MaxByteBlock == 3

PackedBit(d, v0, b) == (((v0 + (b \div d)) % Pow2(d)) \div Pow2(b % d)) % 2

RECURSIVE PackedByte(_, _, _, _)
PackedByte(d, v0, n, t) ==
    IF t = 8 THEN 0
    ELSE PackedBit(d, v0, 8 * n + t) * Pow2(t) + PackedByte(d, v0, n, t + 1)

ValueBytes(d, len, sb) == [n \in 1..len |-> PackedByte(d, 512 * sb, n - 1, 0)]

StrideBytes(len, sb) == [n \in 1..len |-> (37 * sb + 101 * (n - 1)) % 256]

\* the rate and the length of the compressed vector and polynomial of K
VectorRate(K) == IF K = 2 \/ K = 3 THEN 10 ELSE 11
PolyRate(K) == IF K = 2 \/ K = 3 THEN 4 ELSE 5

CodecBytes(codec, K) ==
    LET d == IF codec = "vector" THEN VectorRate(K) ELSE PolyRate(K)
        len == IF codec = "vector" THEN (K * paramsN * d) \div 8 ELSE (paramsN * d) \div 8
    IN  {ValueBytes(d, len, sb) : sb \in 0..MaxByteBlock}
            \cup {StrideBytes(len, sb) : sb \in 0..MaxByteBlock}

CodecInit ==
    /\ KemIdle
    /\ pureOp = "none"
    /\ pureMid = <<>>
    /\ pureOut = <<>>
    /\ \/ /\ pureKind = "rawpoly"
          /\ pureIn \in {RawPolyInput(sb) : sb \in 0..MaxRawBlock}
       \/ /\ pureKind = "bytes"
          /\ \E codec \in {"vector", "poly"}, k \in SupportedK :
                \E b \in CodecBytes(codec, k) :
                    pureIn = [codec |-> codec, paramsK |-> k, a |-> b]

\* polyConditionalSubQ(p)
ConditionalSubQ ==
    /\ pureOp = "none"
    /\ pureKind = "rawpoly"
    /\ pureOp' = "polyConditionalSubQ"
    /\ pureMid' = <<>>
    /\ pureOut' = polyConditionalSubQ(pureIn)
    /\ UNCHANGED <<pureKind, pureIn, kemVars>>

\* polyToBytes(p)
ExportBytes ==
    /\ pureOp = "none"
    /\ pureKind = "rawpoly"
    /\ pureOp' = "polyToBytes"
    /\ pureMid' = [paramsK |-> 0, input |-> pureIn, reads |-> polyToBytesReads(pureIn)]
    /\ pureOut' = polyToBytes(pureIn)
    /\ UNCHANGED <<pureKind, pureIn, kemVars>>

\* polyToMsg(p)
ExportMsg ==
    /\ pureOp = "none"
    /\ pureKind = "rawpoly"
    /\ pureOp' = "polyToMsg"
    /\ pureMid' = [paramsK |-> 0, input |-> pureIn, reads |-> polyToMsgReads(pureIn)]
    /\ pureOut' = polyToMsg(pureIn)
    /\ UNCHANGED <<pureKind, pureIn, kemVars>>

\* compressPolyVector(a) on an instance of paramsK k
CompressVector ==
    /\ pureOp = "none"
    /\ pureKind = "rawpoly"
    /\ pureOp' = "compressPolyVector"
    /\ \E k \in SupportedK :
          /\ pureMid' = [paramsK |-> k, input |-> PolyVecInput(k, pureIn),
                         reads |-> compressPolyVectorReads(k, PolyVecInput(k, pureIn))]
          /\ pureOut' = compressPolyVector(k, PolyVecInput(k, pureIn))
    /\ UNCHANGED <<pureKind, pureIn, kemVars>>

\* compressPoly(polyA) on an instance of paramsK k
CompressPoly ==
    /\ pureOp = "none"
    /\ pureKind = "rawpoly"
    /\ pureOp' = "compressPoly"
    /\ \E k \in SupportedK :
          /\ pureMid' = [paramsK |-> k, input |-> pureIn,
                         reads |-> compressPolyReads(pureIn)]
          /\ pureOut' = compressPoly(k, pureIn)
    /\ UNCHANGED <<pureKind, pureIn, kemVars>>

\* compressPolyVector(decompressPolyVector(a)) on an instance of paramsK
RecompressVector ==
    /\ pureOp = "none"
    /\ pureKind = "bytes"
    /\ pureIn.codec = "vector"
    /\ pureOp' = "decompressPolyVector"
    /\ pureMid' = decompressPolyVector(pureIn.paramsK, pureIn.a)
    /\ pureOut' = compressPolyVector(pureIn.paramsK,
                                     decompressPolyVector(pureIn.paramsK, pureIn.a))
    /\ UNCHANGED <<pureKind, pureIn, kemVars>>

\* compressPoly(decompressPoly(a)) on an instance of paramsK
RecompressPoly ==
    /\ pureOp = "none"
    /\ pureKind = "bytes"
    /\ pureIn.codec = "poly"
    /\ pureOp' = "decompressPoly"
    /\ pureMid' = decompressPoly(pureIn.paramsK, pureIn.a)
    /\ pureOut' = compressPoly(pureIn.paramsK, decompressPoly(pureIn.paramsK, pureIn.a))
    /\ UNCHANGED <<pureKind, pureIn, kemVars>>

CodecNext ==
    \/ RecompressVector
    \/ RecompressPoly
    \/ ConditionalSubQ
    \/ ExportBytes
    \/ ExportMsg
    \/ CompressVector
    \/ CompressPoly

SpecCodec == CodecInit /\ [][CodecNext]_vars

-----------------------------------------------------------------------------
(* The loops of ntt and invNTT, one group at a time                        *)
(*                                                                         *)
(* pureIn holds the transform and its argument, pureOut the array r being  *)
(* rewritten in place, pureMid the loop variables l, start, j, k with the  *)
(* position pc, and three records of what the loops did: the layers begun, *)
(* the table indices read, and how often each of the 256 coefficients has  *)
(* been in a butterfly of the layer in progress.                           *)

MaxSchedulePoly == 1

\* k++
nttNextKStuck(k) == k

nttNextK(k) == k + 1

\* the inner loop of ntt over one group: for (j = start; j < start + l; j++)
nttGroup(r, l, start, k) ==
    [n \in 1..Len(r) |->
        LET idx  == n - 1
            zeta == At(nttZetas, k)
        IN  IF idx >= start /\ idx < start + l
            THEN int16(At(r, idx) + modQMulMont(zeta, At(r, idx + l)))
            ELSE IF idx >= start + l /\ idx < start + 2 * l
            THEN int16(At(r, idx - l) - modQMulMont(zeta, At(r, idx)))
            ELSE r[n]] \o <<>>

\* the inner loop of invNTT over one group
invNTTGroup(r, l, start, k) ==
    [n \in 1..Len(r) |->
        LET idx  == n - 1
            zeta == At(nttZetasInv, k)
        IN  IF idx >= start /\ idx < start + l
            THEN barrettReduce(At(r, idx) + At(r, idx + l))
            ELSE IF idx >= start + l /\ idx < start + 2 * l
            THEN modQMulMont(zeta, At(r, idx - l) - At(r, idx))
            ELSE r[n]] \o <<>>

\* the coefficients in the butterflies (j, j + l) of one group
TouchedBy(touched, l, start) ==
    [c \in 0..(paramsN - 1) |->
        touched[c] + (IF (c >= start /\ c < start + l)
                          \/ (c - l >= start /\ c - l < start + l)
                      THEN 1 ELSE 0)]

NoneTouched == [c \in 0..(paramsN - 1) |-> 0]

\* let j = 0; let k = 1 (ntt) or 0 (invNTT); the first layer is entered
ScheduleStart(fn) ==
    [pc |-> "group", l |-> IF fn = "ntt" THEN 128 ELSE 2, start |-> 0, j |-> 0,
     k |-> IF fn = "ntt" THEN 1 ELSE 0,
     layers |-> <<IF fn = "ntt" THEN 128 ELSE 2>>,
     reads |-> <<>>, scaleReads |-> <<>>, touched |-> NoneTouched]

ScheduleInit ==
    /\ KemIdle
    /\ pureKind = "schedule"
    /\ pureOp = "none"
    /\ \E fn \in {"ntt", "invNTT"}, sd \in 0..MaxSchedulePoly :
          /\ pureIn = [fn |-> fn, r |-> PolyInput(sd, 3)]
          /\ pureMid = ScheduleStart(fn)
          /\ pureOut = PolyInput(sd, 3)

\* one pass of the loop over start: zeta is read, k advanced, the group's
\* butterflies run, and start = j + l is tested against 256
GroupStep(r1) ==
    LET m  == pureMid
        j1 == m.start + m.l
        s1 == j1 + m.l
    IN  /\ pureOut' = r1
        /\ pureMid' = [m EXCEPT !.k = nttNextK(m.k), !.j = j1, !.start = s1,
                                !.reads = Append(m.reads, m.k),
                                !.touched = TouchedBy(m.touched, m.l, m.start),
                                !.pc = IF s1 < 256 THEN "group" ELSE "layer"]

NttGroup ==
    /\ pureKind = "schedule"
    /\ pureIn.fn = "ntt"
    /\ pureMid.pc = "group"
    /\ GroupStep(nttGroup(pureOut, pureMid.l, pureMid.start, pureMid.k))
    /\ pureOp' = "ntt loop"
    /\ UNCHANGED <<pureKind, pureIn, kemVars>>

\* l >>= 1 and the test l >= 2; a new layer starts at start = 0
NttLayer ==
    /\ pureKind = "schedule"
    /\ pureIn.fn = "ntt"
    /\ pureMid.pc = "layer"
    /\ LET l1 == Shr(pureMid.l, 1)
       IN  pureMid' = IF l1 >= 2
                      THEN [pureMid EXCEPT !.l = l1, !.start = 0, !.pc = "group",
                                           !.layers = Append(pureMid.layers, l1),
                                           !.touched = NoneTouched]
                      ELSE [pureMid EXCEPT !.l = l1, !.pc = "done"]
    /\ UNCHANGED <<pureKind, pureIn, pureOp, pureOut, kemVars>>

InvNttGroup ==
    /\ pureKind = "schedule"
    /\ pureIn.fn = "invNTT"
    /\ pureMid.pc = "group"
    /\ GroupStep(invNTTGroup(pureOut, pureMid.l, pureMid.start, pureMid.k))
    /\ pureOp' = "invNTT loop"
    /\ UNCHANGED <<pureKind, pureIn, kemVars>>

\* l <<= 1 and the test l <= 128
InvNttLayer ==
    /\ pureKind = "schedule"
    /\ pureIn.fn = "invNTT"
    /\ pureMid.pc = "layer"
    /\ LET l1 == Shl(pureMid.l, 1)
       IN  pureMid' = IF l1 <= 128
                      THEN [pureMid EXCEPT !.l = l1, !.start = 0, !.pc = "group",
                                           !.layers = Append(pureMid.layers, l1),
                                           !.touched = NoneTouched]
                      ELSE [pureMid EXCEPT !.l = l1, !.pc = "scale"]
    /\ UNCHANGED <<pureKind, pureIn, pureOp, pureOut, kemVars>>

\* for (j = 0; j < 256; j++) r[j] = modQMulMont(r[j], nttZetasInv[127])
InvNttScale ==
    /\ pureKind = "schedule"
    /\ pureIn.fn = "invNTT"
    /\ pureMid.pc = "scale"
    /\ pureOut' = [n \in 1..Len(pureOut) |->
                      IF n > 256 THEN pureOut[n]
                      ELSE modQMulMont(pureOut[n], At(nttZetasInv, 127))]
    /\ pureMid' = [pureMid EXCEPT !.j = 256, !.scaleReads = <<127>>, !.pc = "done"]
    /\ UNCHANGED <<pureKind, pureIn, pureOp, kemVars>>

ScheduleNext ==
    \/ NttGroup
    \/ NttLayer
    \/ InvNttGroup
    \/ InvNttLayer
    \/ InvNttScale

SpecSchedule == ScheduleInit /\ [][ScheduleNext]_vars

-----------------------------------------------------------------------------
\* the exchange is the honest one: encrypt was given the generated public
\* key, decrypt the ciphertext encrypt returned and the generated secret key
HonestExchange ==
    /\ kemPhase = "dec"
    /\ kemEnc.publicKey = kemKeys.pk
    /\ kemDec.cipherText = kemEnc.cipherText
    /\ kemDec.privateKey = kemKeys.sk

(* C1: for every K in {2, 3, 4}, every key pair of generateKyberKeys and    *)
(* every draw of the 32 random bytes of encrypt: if [ct, ss] = encrypt(pk)  *)
(* then decrypt(ct, sk) returns exactly ss.                                 *)
C1_RoundTrip ==
    HonestExchange =>
        /\ kemEnc.outcome = "returned"
        /\ kemDec.outcome = "returned"
        /\ kemDec.sharedSecret = kemEnc.sharedSecret

\* an honest exchange with K = 2 has ended: the re-encryption matched
C1_Witness ==
    /\ HonestExchange
    /\ paramsK = 2
    /\ kemDec.m = kemEnc.rndHash
    /\ kemDec.fail = 0
    /\ kemDec.sharedSecret = kemEnc.sharedSecret

(* C2: implicit rejection: whenever the re-encrypted ciphertext differs     *)
(* from the received one, decrypt returns SHAKE-256(z || SHA3-256(ct)) with *)
(* z the last 32 bytes of the secret key; when they are equal the pre-key   *)
(* is used unchanged.                                                       *)
C2_ImplicitRejection ==
    (kemPhase = "dec" /\ kemDec.outcome = "returned"
        /\ kemDec.privateKey = kemKeys.sk
        /\ Len(kemDec.cipherText) = KyberCTBytes(paramsK)) =>
        /\ kemDec.cmp # kemDec.cipherText =>
              kemDec.sharedSecret =
                  SHAKE256(kemKeys.z \o SHA3_256(kemDec.cipherText))
        /\ kemDec.cmp = kemDec.cipherText =>
              kemDec.sharedSecret =
                  SHAKE256(Slice(kemDec.krBuf, 0, paramsSymBytes)
                               \o SHA3_256(kemDec.cipherText))

(* C4: input-length mismatch is reported with no partial work: encrypt      *)
(* given a public key, or decrypt given a ciphertext or a secret key, of a  *)
(* length other than that of the instance's K ends in an error before any   *)
(* slicing, hashing or IND-CPA call, and returns no shared secret.          *)
C4_LengthMismatch ==
    /\ (kemEnc.outcome # "none" /\ Len(kemEnc.publicKey) # KyberPKBytes(paramsK)) =>
          /\ kemEnc.outcome = "threw"
          /\ kemEnc.work = <<>>
          /\ kemEnc.sharedSecret = <<>>
    /\ (kemDec.outcome # "none"
          /\ (Len(kemDec.cipherText) # KyberCTBytes(paramsK)
                \/ Len(kemDec.privateKey) # KyberSKBytes(paramsK))) =>
          /\ kemDec.outcome = "threw"
          /\ kemDec.work = <<>>
          /\ kemDec.sharedSecret = <<>>

(* C5: an unsupported parameter set is reported at construction: no         *)
(* instance of the service or of its Poly engine exists with a paramsK      *)
(* outside {2, 3, 4}.                                                       *)
C5_UnsupportedK ==
    pureOp = "Poly" => pureMid.paramsK \in SupportedK

(* C6: byte sizes hold exactly for each K in {2, 3, 4}: the constants give  *)
(* pk = 800/1184/1568, sk = 1632/2400/3168, ct = 768/1088/1568; the secret  *)
(* key of generateKyberKeys has length |sk_cpa| + |pk| + 64, the sk value;  *)
(* compressPolyVector returns K * 320 (K = 2, 3) or K * 352 bytes and       *)
(* compressPoly 128 (K = 2, 3) or 160 bytes, together the ct length.        *)
C6_Sizes ==
    /\ <<Kyber512PKBytes, Kyber768PKBytes, Kyber1024PKBytes>> = <<800, 1184, 1568>>
    /\ <<Kyber512SKBytes, Kyber768SKBytes, Kyber1024SKBytes>> = <<1632, 2400, 3168>>
    /\ <<Kyber512CTBytes, Kyber768CTBytes, Kyber1024CTBytes>> = <<768, 1088, 1568>>
    /\ kemPhase = "keys" =>
          LET pv == polyVectorFromBytes(paramsK, kemKeys.pk)
              u == compressPolyVector(paramsK, pv)
              v == compressPoly(paramsK, polyFromData(kemKeys.z))
          IN  /\ paramsK \in SupportedK
              /\ Len(kemKeys.skCpa) = paramsK * 384
              /\ Len(kemKeys.pk) = paramsK * 384 + 32
              /\ Len(kemKeys.pk) = KyberPKBytes(paramsK)
              /\ Len(kemKeys.sk) = Len(kemKeys.skCpa) + Len(kemKeys.pk) + 64
              /\ Len(kemKeys.sk) = KyberSKBytes(paramsK)
              /\ \A i \in 1..paramsK : Len(pv[i]) = paramsN
              /\ Len(u) = IF paramsK = 4 THEN paramsK * 352 ELSE paramsK * 320
              /\ Len(v) = IF paramsK = 4 THEN 160 ELSE 128
              /\ Len(u \o v) = KyberCTBytes(paramsK)

\* a Kyber-1024 key pair has been generated: 3168 bytes of secret key
C6_Witness ==
    /\ kemPhase = "keys"
    /\ paramsK = 4
    /\ Len(kemKeys.sk) = 3168
    /\ Len(kemKeys.pk) = 1568

(* C7: the secret-key layout is the same for producer and consumer:         *)
(* generateKyberKeys returns sk = sk_cpa || pk || SHA3-256(pk) || z with pk *)
(* the returned public key and z the 32 bytes drawn, and decrypt on that sk *)
(* extracts these four fields, z from the last 32 bytes, the offset just    *)
(* after h.                                                                 *)
C7_Layout ==
    /\ kemPhase \in {"keys", "enc", "dec"} =>
          /\ Len(kemKeys.z) = 32
          /\ kemKeys.sk =
                kemKeys.skCpa \o kemKeys.pk \o SHA3_256(kemKeys.pk) \o kemKeys.z
    /\ (kemPhase = "dec" /\ kemDec.privateKey = kemKeys.sk) =>
          /\ kemDec.indcpaPrivateKey = kemKeys.skCpa
          /\ kemDec.indcpaPublicKey = kemKeys.pk
          /\ kemDec.pkHash = SHA3_256(kemKeys.pk)
          /\ kemDec.outcome = "returned" =>
                /\ kemDec.krBuf = SHA3_512(kemDec.m \o SHA3_256(kemKeys.pk))
                /\ kemDec.z = kemKeys.z
                /\ kemDec.zIndex =
                      Len(kemKeys.skCpa) + Len(kemKeys.pk) + paramsSymBytes

\* decrypt has parsed a Kyber-768 secret key and read z from its end
C7_Witness ==
    /\ kemPhase = "dec"
    /\ paramsK = 3
    /\ kemDec.privateKey = kemKeys.sk
    /\ kemDec.outcome = "returned"
    /\ kemDec.zIndex = 2368
    /\ kemDec.z = kemKeys.z

(* C3: the comparison of decapsulation step 5 is constant-time in both      *)
(* operands: two runs on arrays of the same length execute the same number  *)
(* of element comparisons, whatever the contents and wherever they differ.  *)
C3_ConstantTime ==
    (pureOp = "cmp" /\ Len(pureIn.a1) = Len(pureIn.a2)) => pureOut[1] = pureOut[2]

(* C8: for every polynomial p of 256 coefficients in [0, q), including the  *)
(* all-(q-1) polynomial, polyFromBytes(polyToBytes(p)) = p, and polyToBytes *)
(* yields 384 bytes, each in 0..255, that pack each coefficient pair as two *)
(* 12-bit little-endian values.                                             *)
C8_BytesRoundTrip ==
    pureOp = "bytes" =>
        /\ Len(pureIn) = paramsN
        /\ pureOut = pureIn
        /\ Len(pureMid) = 384
        /\ \A n \in 1..384 : pureMid[n] \in 0..255
        /\ \A i \in 0..127 :
              At(pureMid, 3 * i) + 256 * At(pureMid, 3 * i + 1)
                  + 65536 * At(pureMid, 3 * i + 2)
              = At(pureIn, 2 * i) + 4096 * At(pureIn, 2 * i + 1)

\* the all-(q-1) polynomial has made the round trip through 00 0D D0 ...
C8_Witness ==
    /\ pureOp = "bytes"
    /\ \A n \in 1..paramsN : pureIn[n] = paramsQ - 1
    /\ SubSeq(pureMid, 1, 3) = <<0, 13, 208>>
    /\ pureOut = pureIn

(* C9: for every 32-byte message m, polyToMsg(polyFromData(m)) = m;         *)
(* polyFromData maps bit 1 to 1665 and bit 0 to 0, polyToMsg maps each      *)
(* coefficient a in [0, q) to ((2a + q/2) / q) & 1 and returns 32 bytes.    *)
C9_MsgRoundTrip ==
    pureOp = "msg" =>
        /\ Len(pureIn) = 32
        /\ pureOut = pureIn
        /\ Len(pureOut) = 32
        /\ \A i \in 0..31, j \in 0..7 :
              At(pureMid, 8 * i + j) =
                  IF (At(pureIn, i) \div Pow2(j)) % 2 = 1 THEN 1665 ELSE 0
        /\ \A a \in 0..(paramsQ - 1) :
              MsgBit(a) = ((2 * a + 1664) \div paramsQ) % 2

\* a message with set and clear bits has made the round trip
C9_Witness ==
    /\ pureOp = "msg"
    /\ At(pureIn, 0) = 0
    /\ At(pureIn, 31) = 217
    /\ pureOut = pureIn

(* C10: for every polynomial p of 256 coefficients in [0, q),               *)
(* invNTT(ntt(p))[i] is congruent to p[i] * 2^16 modulo q for all i.        *)
C10_NttRoundTrip ==
    pureOp = "ntt" =>
        \A n \in 1..paramsN : (pureOut[n] - pureIn[n] * MontR) % paramsQ = 0

\* a polynomial with distinct non-zero coefficients has been transformed and back
C10_Witness ==
    /\ pureOp = "ntt"
    /\ pureIn[1] = 3328
    /\ pureIn[2] = 0
    /\ pureMid # pureIn
    /\ Len(pureOut) = paramsN

CompressValue(x, d) == ((x * Pow2(d) + (paramsQ \div 2)) \div paramsQ) % Pow2(d)

(* C12: for every coefficient x in [0, q) compression emits the d-bit value *)
(* floor((x 2^d + floor(q/2)) / q) mod 2^d, packed low bit first into       *)
(* consecutive bytes; compressPolyVector uses d = 10 for K in {2, 3} and 11 *)
(* for K = 4, compressPoly d = 4 for K in {2, 3} and 5 for K = 4.           *)
C12_CompressValue ==
    /\ pureOp = "compressPolyVector" =>
          LET k == pureMid.paramsK
              d == IF k = 4 THEN 11 ELSE 10
          IN  /\ Len(pureOut) = (k * paramsN * d) \div 8
              /\ \A n \in 1..Len(pureOut) : pureOut[n] \in 0..255
              /\ \A i \in 1..k, n \in 1..paramsN :
                    LET x == pureMid.input[i][n]
                    IN  x \in 0..(paramsQ - 1) =>
                            BitsAt(pureOut, d * (paramsN * (i - 1) + n - 1), d)
                                = CompressValue(x, d)
    /\ pureOp = "compressPoly" =>
          LET k == pureMid.paramsK
              d == IF k = 4 THEN 5 ELSE 4
          IN  /\ Len(pureOut) = (paramsN * d) \div 8
              /\ \A n \in 1..Len(pureOut) : pureOut[n] \in 0..255
              /\ \A n \in 1..paramsN :
                    LET x == pureIn[n]
                    IN  x \in 0..(paramsQ - 1) =>
                            BitsAt(pureOut, d * (n - 1), d) = CompressValue(x, d)

\* the polynomial 0, 1, ..., 255 has been compressed at rate 4: its last two
\* coefficients, 254 and 255, both give 1
C12_Witness ==
    /\ pureOp = "compressPoly"
    /\ pureMid.paramsK = 2
    /\ pureIn[1] = 0
    /\ pureIn[256] = 255
    /\ pureOut[128] = 17

\* the coefficient the specification gives for a d-bit value y
DecompressValue(y, d) == (y * paramsQ + Pow2(d - 1)) \div Pow2(d)

(* C13: for every d-bit value y unpacked from the input bytes (d = 10 or 11 *)
(* in decompressPolyVector, 4 or 5 in decompressPoly, chosen by K) the      *)
(* decompressed coefficient is floor((y q + 2^(d-1)) / 2^d) and lies in     *)
(* [0, q), although uint32 returns its argument plus 2^32.                  *)
C13_DecompressValue ==
    /\ uint32(paramsQ) = <<paramsQ, 0, 1, 0>>
    /\ pureOp = "decompressPolyVector" =>
          LET k == pureIn.paramsK
              d == VectorRate(k)
          IN  /\ Len(pureMid) = k
              /\ \A i \in 1..k :
                    /\ Len(pureMid[i]) = paramsN
                    /\ \A n \in 1..paramsN :
                          LET y == BitsAt(pureIn.a, d * (paramsN * (i - 1) + n - 1), d)
                          IN  /\ pureMid[i][n] = DecompressValue(y, d)
                              /\ pureMid[i][n] \in 0..(paramsQ - 1)
    /\ pureOp = "decompressPoly" =>
          LET d == PolyRate(pureIn.paramsK)
          IN  /\ Len(pureMid) = paramsN
              /\ \A n \in 1..paramsN :
                    LET y == BitsAt(pureIn.a, d * (n - 1), d)
                    IN  /\ pureMid[n] = DecompressValue(y, d)
                        /\ pureMid[n] \in 0..(paramsQ - 1)

\* the 11-bit values 1536 .. 2047, 0 .. 511 have been decompressed for K = 4:
\* 2047, the 512th, gives 3327
C13_Witness ==
    /\ pureOp = "decompressPolyVector"
    /\ pureIn.paramsK = 4
    /\ BitsAt(pureIn.a, 11 * 511, 11) = 2047
    /\ pureMid[2][256] = 3327

(* C14: every operation that exports a polynomial to bytes (polyToBytes,    *)
(* polyToMsg, compressPolyVector, compressPoly) applies polyConditionalSubQ *)
(* to its input before any coefficient is encoded: the coefficients its     *)
(* encoding loop reads are those of the conditionally subtracted input.     *)
C14_SubQBeforeExport ==
    /\ pureOp \in {"polyToBytes", "polyToMsg", "compressPoly"} =>
          pureMid.reads = polyConditionalSubQ(pureMid.input)
    /\ pureOp = "compressPolyVector" =>
          pureMid.reads = polyVectorCSubQ(pureMid.paramsK, pureMid.input)

(* C15 as stated: after polyConditionalSubQ every coefficient lies in       *)
(* [0, q) and is congruent modulo q to its input value, for every input     *)
(* coefficient c with -q < c < 2q.                                          *)
C15_SubQRange ==
    pureOp = "polyConditionalSubQ" =>
        \A n \in 1..paramsN :
            (pureIn[n] > -paramsQ /\ pureIn[n] < 2 * paramsQ) =>
                /\ pureOut[n] \in 0..(paramsQ - 1)
                /\ pureOut[n] % paramsQ = pureIn[n] % paramsQ

(* C15, amended: after polyConditionalSubQ every coefficient c with         *)
(* 0 <= c < 2q lies in [0, q) and is congruent modulo q to c; a coefficient *)
(* c with -q < c < 0 is returned unchanged, still negative.                 *)
C15_SubQNonNegative ==
    pureOp = "polyConditionalSubQ" =>
        /\ Len(pureOut) = paramsN
        /\ \A n \in 1..paramsN :
              /\ (pureIn[n] >= 0 /\ pureIn[n] < 2 * paramsQ) =>
                    /\ pureOut[n] \in 0..(paramsQ - 1)
                    /\ pureOut[n] % paramsQ = pureIn[n] % paramsQ
              /\ (pureIn[n] > -paramsQ /\ pureIn[n] < 0) => pureOut[n] = pureIn[n]

\* the polynomial 3328, 3329, ..., 3583 has been conditionally subtracted:
\* q - 1 is kept and q becomes 0
C15_Witness ==
    /\ pureOp = "polyConditionalSubQ"
    /\ pureIn[1] = paramsQ - 1
    /\ pureIn[2] = paramsQ
    /\ pureOut[1] = paramsQ - 1
    /\ pureOut[2] = 0

(* C18: with the K-matched rate compression is a left inverse of            *)
(* decompression on bytes: compressPolyVector(decompressPolyVector(b)) = b  *)
(* for b of K * 320 (K = 2, 3) or K * 352 (K = 4) bytes, and                *)
(* compressPoly(decompressPoly(c)) = c for c of 128 (K = 2, 3) or 160       *)
(* (K = 4) bytes; every d-bit value y has compress_d(decompress_d(y)) = y.  *)
C18_CompressLeftInverse ==
    /\ pureOp = "decompressPolyVector" =>
          /\ Len(pureIn.a) = pureIn.paramsK * (IF pureIn.paramsK = 4 THEN 352 ELSE 320)
          /\ pureOut = pureIn.a
          /\ \A i \in 1..pureIn.paramsK, n \in 1..paramsN :
                CompressValue(pureMid[i][n], VectorRate(pureIn.paramsK))
                    = BitsAt(pureIn.a, VectorRate(pureIn.paramsK)
                                          * (paramsN * (i - 1) + n - 1),
                             VectorRate(pureIn.paramsK))
    /\ pureOp = "decompressPoly" =>
          /\ Len(pureIn.a) = (IF pureIn.paramsK = 4 THEN 160 ELSE 128)
          /\ pureOut = pureIn.a
          /\ \A n \in 1..paramsN :
                CompressValue(pureMid[n], PolyRate(pureIn.paramsK))
                    = BitsAt(pureIn.a, PolyRate(pureIn.paramsK) * (n - 1),
                             PolyRate(pureIn.paramsK))

\* the 160 bytes 37, 138, ... have been decompressed at rate 5 and compressed
\* again: the first value, 37 mod 32 = 5, gives the coefficient 520
C18_Witness ==
    /\ pureOp = "decompressPoly"
    /\ pureIn.paramsK = 4
    /\ pureIn.a[1] = 37
    /\ pureMid[1] = 520
    /\ pureOut[1] = 37

(* C16: the comparison result used as the rejection mask is 0 when ct and   *)
(* ct' are equal and 0xFF otherwise, for all pairs of byte arrays, those of *)
(* different length included, so that kr[i] ^ (fail & (kr[i] ^ z[i])) is    *)
(* z[i] for every byte i when the arrays differ and kr[i] when they are     *)
(* equal.                                                                   *)
C16_RejectionMask ==
    (kemPhase = "dec" /\ kemDec.outcome = "returned"
        /\ kemDec.privateKey = kemKeys.sk
        /\ Len(kemDec.cipherText) = KyberCTBytes(paramsK)) =>
        /\ kemDec.fail = (IF kemDec.cmp = kemDec.cipherText THEN 0 ELSE 255)
        /\ Len(kemDec.kr) = Len(kemDec.krBuf)
        /\ \A i \in 1..paramsSymBytes :
              kemDec.kr[i] = (IF kemDec.cmp = kemDec.cipherText
                              THEN kemDec.krBuf[i] ELSE kemDec.z[i])

\* s is the sequence first, first + 1, ..., one step at a time
CountsUpFrom(s, first) == \A i \in 1..Len(s) : s[i] = first + i - 1

\* s is a beginning of the sequence t
IsPrefix(s, t) == Len(s) <= Len(t) /\ \A i \in 1..Len(s) : s[i] = t[i]

(* C17: ntt runs exactly the 7 layers len = 128, 64, ..., 2 with group      *)
(* starts spaced 2 len apart; in every layer each of the 256 coefficients   *)
(* is in exactly one butterfly (j, j + len), 0 <= j, j + len <= 255; the    *)
(* zeta index k advances once per group and takes the values 1, ..., 127    *)
(* each exactly once in increasing order, inside the 128-entry table.       *)
(* invNTT mirrors this with len = 2, ..., 128 and k = 0, ..., 126, and      *)
(* reads nttZetasInv[127] only in the final scaling pass over all 256       *)
(* coefficients.                                                            *)
C17_TransformSchedule ==
    pureKind = "schedule" =>
        LET m   == pureMid
            fwd == pureIn.fn = "ntt"
            all == IF fwd THEN <<128, 64, 32, 16, 8, 4, 2>>
                          ELSE <<2, 4, 8, 16, 32, 64, 128>>
        IN  /\ IsPrefix(m.layers, all)
            /\ m.pc \in {"scale", "done"} => m.layers = all
            /\ CountsUpFrom(m.reads, IF fwd THEN 1 ELSE 0)
            /\ Len(m.reads) <= 127
            /\ \A i \in 1..Len(m.reads) : m.reads[i] \in 0..(Len(nttZetas) - 1)
            /\ m.pc \in {"scale", "done"} => Len(m.reads) = 127
            /\ m.pc = "group" =>
                  /\ m.start % (2 * m.l) = 0
                  /\ m.start >= 0
                  /\ m.start + 2 * m.l <= paramsN
                  /\ m.k = (IF fwd THEN nttZetaIndex(m.l, m.start)
                                   ELSE invNTTZetaIndex(m.l, m.start))
            /\ \A c \in 0..(paramsN - 1) : m.touched[c] <= 1
            /\ m.pc \in {"layer", "scale", "done"} =>
                  \A c \in 0..(paramsN - 1) : m.touched[c] = 1
            /\ m.scaleReads = (IF ~fwd /\ m.pc = "done" THEN <<127>> ELSE <<>>)
            /\ Len(nttZetas) = 128
            /\ Len(nttZetasInv) = 128
            /\ m.pc = "done" =>
                  pureOut = (IF fwd THEN ntt(pureIn.r) ELSE invNTT(pureIn.r))

\* ntt has returned: its last group was the 127th and read nttZetas[127]
C17_Witness ==
    /\ pureKind = "schedule"
    /\ pureIn.fn = "ntt"
    /\ pureMid.pc = "done"
    /\ Len(pureMid.reads) = 127
    /\ pureMid.reads[127] = 127
    /\ pureMid.layers = <<128, 64, 32, 16, 8, 4, 2>>

=============================================================================
